---- MODULE Spec2Model ----
(***************************************************************************)
(* PyFrame (src/PyFrame/pyframe.py): a Canvas that keeps a list of Artist  *)
(* objects sorted by layer, draws the active ones on its axes, drops the   *)
(* done ones, and saves one image per frame.                               *)
(*                                                                         *)
(* Python objects are modelled as a heap `objs` (a sequence of records,    *)
(* an object is its index); Canvas.artists holds references (indices).     *)
(* The matplotlib axes are modelled by the sequence of artists whose       *)
(* artist_factory has been invoked on them since the last ax.clear().      *)
(***************************************************************************)
EXTENDS Integers, Sequences, FiniteSets, TLC

\* ---------------------------------------------------------------- bounds
MaxFrame == 3      \* save() is not called once frame_counter exceeds this
MaxLen   == 3      \* length of Canvas.artists
MaxSurf  == 2      \* drawings held by the axes
LongRun  == 21     \* frames saved in the run with the window [10, 20]
MidRun   == 5      \* frames saved in the run with the one-time artist of frame 5
MaxToggles == 4    \* toggle() calls in a row on one ToggledArtist

\* ------------------------------------------------- constructor arguments
\* The constructor calls the caller makes, in the order it makes them:
\* Artist(f, layer), TimedArtist(f, start, end, layer),
\* ToggledArtist(f, state, layer), OneTimeArtist(f, when, layer).
\* layer defaults to 0 and when to 0.
NoArgs == [layer |-> 0, start |-> 0, end |-> 0, state |-> "none", when |-> 0]

PlainA(l)       == [kind |-> "Artist",        kw |-> [NoArgs EXCEPT !.layer = l]]
TimedA(s, e, l) == [kind |-> "TimedArtist",   kw |-> [NoArgs EXCEPT !.start = s, !.end = e, !.layer = l]]
ToggledA(st, l) == [kind |-> "ToggledArtist", kw |-> [NoArgs EXCEPT !.state = st, !.layer = l]]
OneTimeA(w, l)  == [kind |-> "OneTimeArtist", kw |-> [NoArgs EXCEPT !.when = w, !.layer = l]]

\* A plan is the sequence of constructor calls of one run, the id tokens
\* np.random.choice draws for them, and the number of frames the run saves.
Plan(calls, ids, frames) == [calls |-> calls, ids |-> ids, frames |-> frames]

PlanOf(p) ==
  CASE p = "mixed"   -> Plan(<<PlainA(0), TimedA(2, 3, 1), OneTimeA(2, 0)>>, <<1, 2, 3>>, MaxFrame)
    [] p = "layers"  -> Plan(<<PlainA(1), ToggledA("inactive", 0), OneTimeA(0, 0)>>, <<1, 2, 3>>, MaxFrame)
    [] p = "timed"   -> Plan(<<TimedA(1, 2, 1), TimedA(2, 1, 0), OneTimeA(1, 1)>>, <<1, 2, 3>>, MaxFrame)
       \* two artists draw the same id token
    [] p = "clash"   -> Plan(<<PlainA(0), TimedA(1, 1, 1)>>, <<1, 1>>, MaxFrame)
       \* Artist A on layer 0 and TimedArtist B (start 10, end 20) on layer 1
    [] p = "window"  -> Plan(<<PlainA(0), TimedA(10, 20, 1)>>, <<1, 2>>, LongRun)
       \* OneTimeArtist C with when = 5
    [] p = "onetime" -> Plan(<<OneTimeA(5, 0)>>, <<1>>, MidRun)
       \* one ToggledArtist of each initial state
    [] p = "toggles" -> Plan(<<ToggledA("active", 0), ToggledA("inactive", 1)>>, <<1, 2>>, MaxFrame)

Plans == {"mixed", "layers", "timed"}

ClashPlans == {"clash"}

ScenarioPlans == {"window", "onetime"}

TogglePlans == {"toggles"}

\* The plans whose windows have all ended by frame MaxFrame.
LivePlans == {"layers", "timed"}

LayerPlans == {"layers"}

\* ------------------------------------------------------------------ state
VARIABLES
  frame_counter,   \* Canvas.frame_counter
  artists,         \* Canvas.artists: sequence of object references
  objs,            \* the heap: objs[o] is the artist object o
  ax,              \* Canvas.ax: the artists drawn on the axes since the last clear
  plan,            \* the name of the plan this run follows (never changes)
  regno,           \* history: regno[i] is the rank, among the entries now in
                   \*   artists, of the registration that put artists[i] there
  last,            \* history: the last draw pass, until the state changes again
  files            \* history: the suffixes of the savefig calls so far

vars == <<frame_counter, artists, objs, ax, plan, regno, last, files>>

\* The record of a pass: op is the method that ran it (draw, show or save),
\* drew the artists it drew, in order, ngone the number of references it took
\* off the list, image what savefig wrote (save only).
Did(op, drew, ngone, image) ==
  [op |-> op, drew |-> drew, ngone |-> ngone, image |-> image]

NoPass == Did("none", <<>>, 0, <<>>)

\* ----------------------------------------------------------- Artist family
\* Artist.__init__ and the subclasses' __init__; `t` is the id token drawn
\* by np.random.choice.
New(kind, kw, t) ==
  [kind |-> kind, id |-> t, layer |-> kw.layer, deactivated |-> FALSE,
   start |-> kw.start, end |-> kw.end, state |-> kw.state,
   drawn |-> FALSE, when |-> kw.when]

\* isActive with ToggledArtist's test of the deactivated flag left out.
isActive_ToggleOnly(a, f) ==
  CASE a.kind = "Artist"        -> ~a.deactivated
    [] a.kind = "TimedArtist"   -> f >= a.start /\ f <= a.end /\ ~a.deactivated
    [] a.kind = "ToggledArtist" -> a.state = "active"
    [] a.kind = "OneTimeArtist" -> f = a.when /\ ~a.deactivated

\* isActive with TimedArtist's window open at its end.
isActive_OpenEnd(a, f) ==
  CASE a.kind = "Artist"        -> ~a.deactivated
    [] a.kind = "TimedArtist"   -> f >= a.start /\ f < a.end /\ ~a.deactivated
    [] a.kind = "ToggledArtist" -> a.state = "active" /\ ~a.deactivated
    [] a.kind = "OneTimeArtist" -> f = a.when /\ ~a.deactivated

\* isActive with TimedArtist's window read in either direction.
isActive_EitherWay(a, f) ==
  CASE a.kind = "Artist"        -> ~a.deactivated
    [] a.kind = "TimedArtist"   -> /\ \/ (f >= a.start /\ f <= a.end)
                                      \/ (f >= a.end /\ f <= a.start)
                                   /\ ~a.deactivated
    [] a.kind = "ToggledArtist" -> a.state = "active" /\ ~a.deactivated
    [] a.kind = "OneTimeArtist" -> f = a.when /\ ~a.deactivated

isActive(a, f) ==
  CASE a.kind = "Artist"        -> ~a.deactivated
    [] a.kind = "TimedArtist"   -> f >= a.start /\ f <= a.end /\ ~a.deactivated
    [] a.kind = "ToggledArtist" -> a.state = "active" /\ ~a.deactivated
    [] a.kind = "OneTimeArtist" -> f = a.when /\ ~a.deactivated

\* isDone with TimedArtist done one frame late.
isDone_Late(a, f) ==
  CASE a.kind = "Artist"        -> a.deactivated
    [] a.kind = "TimedArtist"   -> f > a.end + 1 \/ a.deactivated
    [] a.kind = "ToggledArtist" -> a.deactivated
    [] a.kind = "OneTimeArtist" -> a.drawn \/ a.deactivated

\* isDone with a ToggledArtist done as soon as it is switched off.
isDone_ToggledOff(a, f) ==
  CASE a.kind = "Artist"        -> a.deactivated
    [] a.kind = "TimedArtist"   -> f > a.end \/ a.deactivated
    [] a.kind = "ToggledArtist" -> a.state = "inactive" \/ a.deactivated
    [] a.kind = "OneTimeArtist" -> a.drawn \/ a.deactivated

isDone(a, f) ==
  CASE a.kind = "Artist"        -> a.deactivated
    [] a.kind = "TimedArtist"   -> f > a.end \/ a.deactivated
    [] a.kind = "ToggledArtist" -> a.deactivated
    [] a.kind = "OneTimeArtist" -> a.drawn \/ a.deactivated

\* Artist.draw with OneTimeArtist's override missing: drawn is not set.
Artist_draw_Base(a) == a

\* Artist.draw and its overrides: the object after artist_factory(ax) ran.
Artist_draw(a) ==
  IF a.kind = "OneTimeArtist" THEN [a EXCEPT !.drawn = TRUE] ELSE a

\* Artist.__eq__
Eq(a, b) == a.id = b.id

Artist_deactivate(a) == [a EXCEPT !.deactivated = TRUE]

\* toggle() that only ever switches the artist on.
ToggledArtist_toggle_On(a) == [a EXCEPT !.state = "active"]

ToggledArtist_toggle(a) ==
  [a EXCEPT !.state = IF a.state = "inactive" THEN "active" ELSE "inactive"]

\* ----------------------------------------------------------------- Canvas
\* An entry pairs a reference held in Canvas.artists with its registration
\* number (history only; the code never reads it).
Entries(as, rs) == [i \in 1..Len(as) |-> [o |-> as[i], n |-> rs[i]]]

\* An insertion that puts the element before the elements of equal key.
RECURSIVE InsertByLayer_Before(_, _, _, _)
InsertByLayer_Before(s, x, os, i) ==
  IF i > Len(s) \/ os[s[i].o].layer >= os[x.o].layer
  THEN SubSeq(s, 1, i - 1) \o <<x>> \o SubSeq(s, i, Len(s))
  ELSE InsertByLayer_Before(s, x, os, i + 1)

\* list.sort(key=lambda artist: artist.layer) is stable: each element is
\* inserted behind the elements of the sorted prefix whose key is not greater.
RECURSIVE InsertByLayer(_, _, _, _)
InsertByLayer(s, x, os, i) ==
  IF i > Len(s) \/ os[s[i].o].layer > os[x.o].layer
  THEN SubSeq(s, 1, i - 1) \o <<x>> \o SubSeq(s, i, Len(s))
  ELSE InsertByLayer(s, x, os, i + 1)

RECURSIVE SortByLayer(_, _)
SortByLayer(s, os) ==
  IF s = <<>> THEN <<>>
  ELSE InsertByLayer(SortByLayer(SubSeq(s, 1, Len(s) - 1), os), s[Len(s)], os, 1)

\* The loop with isDone asked before the artist is drawn.
RECURSIVE DrawLoop_DoneFirst(_, _, _, _)
DrawLoop_DoneFirst(as, f, i, st) ==
  IF i > Len(as) THEN st
  ELSE LET o   == as[i]
           up1 == IF isDone(st.os[o], f) THEN Append(st.up, o) ELSE st.up
           os1 == IF isActive(st.os[o], f)
                  THEN [st.os EXCEPT ![o] = Artist_draw(st.os[o])]
                  ELSE st.os
           dr1 == IF isActive(st.os[o], f) THEN Append(st.drew, o) ELSE st.drew
       IN  DrawLoop_DoneFirst(as, f, i + 1, [os |-> os1, drew |-> dr1, up |-> up1])

\* The loop of Canvas.draw over self.artists (lines 575-580), from position i:
\* st.os is the heap, st.drew the artists drawn so far, st.up up_for_ramoval.
RECURSIVE DrawLoop(_, _, _, _)
DrawLoop(as, f, i, st) ==
  IF i > Len(as) THEN st
  ELSE LET o   == as[i]
           os1 == IF isActive(st.os[o], f)
                  THEN [st.os EXCEPT ![o] = Artist_draw(st.os[o])]
                  ELSE st.os
           dr1 == IF isActive(st.os[o], f) THEN Append(st.drew, o) ELSE st.drew
           up1 == IF isDone(os1[o], f) THEN Append(st.up, o) ELSE st.up
       IN  DrawLoop(as, f, i + 1, [os |-> os1, drew |-> dr1, up |-> up1])

\* list.remove(x): drops the first element equal (Artist.__eq__) to x.
RECURSIVE IndexOf(_, _, _, _)
IndexOf(s, x, os, i) ==
  IF i > Len(s) THEN 0
  ELSE IF Eq(os[s[i].o], os[x]) THEN i
  ELSE IndexOf(s, x, os, i + 1)

ListRemove(s, x, os) ==
  LET i == IndexOf(s, x, os, 1)
  IN  IF i = 0 THEN s ELSE SubSeq(s, 1, i - 1) \o SubSeq(s, i + 1, Len(s))

\* The second loop stopping after its first removal.
RemoveLoop_FirstOnly(s, up, os, j) ==
  IF j > Len(up) THEN s ELSE ListRemove(s, up[j], os)

\* The second loop of Canvas.draw (lines 582-583).
RECURSIVE RemoveLoop(_, _, _, _)
RemoveLoop(s, up, os, j) ==
  IF j > Len(up) THEN s
  ELSE RemoveLoop(ListRemove(s, up[j], os), up, os, j + 1)

\* history: the registration numbers left after a removal, renumbered 1..n
\* in the same order.
Ranks(rs) == [i \in 1..Len(rs) |-> Cardinality({j \in 1..Len(rs) : rs[j] <= rs[i]})]

\* Canvas.draw as a function of the state: the heap, the list and the
\* drawings added to the axes.
CanvasDraw(as, rs, os, f) ==
  LET st   == DrawLoop(as, f, 1, [os |-> os, drew |-> <<>>, up |-> <<>>])
      left == RemoveLoop(Entries(as, rs), st.up, st.os, 1)
  IN  [os   |-> st.os,
       drew |-> st.drew,
       as   |-> [i \in 1..Len(left) |-> left[i].o],
       rs   |-> Ranks([i \in 1..Len(left) |-> left[i].n]),
       ngone |-> Len(st.up)]

\* ----------------------------------------------------------------- actions
\* The state after Canvas.__init__, for a run that follows a plan of ps.
InitWith(ps) ==
  /\ plan \in ps
  /\ frame_counter = 1
  /\ artists = <<>>
  /\ objs = <<>>
  /\ ax = <<>>
  /\ regno = <<>>
  /\ last = NoPass
  /\ files = <<>>

Init == InitWith(Plans)

\* The next constructor call of the plan, evaluated.
NextArtist == New(PlanOf(plan).calls[Len(objs) + 1].kind,
                  PlanOf(plan).calls[Len(objs) + 1].kw,
                  PlanOf(plan).ids[Len(objs) + 1])

\* Registration that appends and leaves the list as it is.
Register_Append(os, o) ==
  /\ artists' = Append(artists, o)
  /\ regno' = Append(regno, Len(artists) + 1)
  /\ objs' = os

\* self.artists += [artist]; self.artists.sort(key=...)  (o is a reference
\* into the heap os)
Register(os, o) ==
  LET sorted == SortByLayer(Append(Entries(artists, regno),
                                   [o |-> o, n |-> Len(artists) + 1]), os)
  IN  /\ artists' = [i \in 1..Len(sorted) |-> sorted[i].o]
      /\ regno' = [i \in 1..Len(sorted) |-> sorted[i].n]
      /\ objs' = os

\* The caller constructs an artist and keeps it for later.
construct ==
  /\ Len(objs) < Len(PlanOf(plan).calls)
  /\ objs' = Append(objs, NextArtist)
  /\ last' = NoPass
  /\ UNCHANGED <<frame_counter, artists, ax, plan, regno, files>>

addArtistFactory ==
  /\ Len(objs) < Len(PlanOf(plan).calls)
  /\ Len(artists) < MaxLen
  /\ Register(Append(objs, NextArtist), Len(objs) + 1)
  /\ last' = NoPass
  /\ UNCHANGED <<frame_counter, ax, plan, files>>

addArtist(o) ==
  /\ Len(artists) < MaxLen
  /\ Register(objs, o)
  /\ last' = NoPass
  /\ UNCHANGED <<frame_counter, ax, plan, files>>

deactivate(o) ==
  /\ objs' = [objs EXCEPT ![o] = Artist_deactivate(objs[o])]
  /\ last' = NoPass
  /\ UNCHANGED <<frame_counter, artists, ax, plan, regno, files>>

toggle(o) ==
  /\ objs[o].kind = "ToggledArtist"
  /\ objs' = [objs EXCEPT ![o] = ToggledArtist_toggle(objs[o])]
  /\ last' = NoPass
  /\ UNCHANGED <<frame_counter, artists, ax, plan, regno, files>>

\* The effect of self.draw() on artists, objs and regno.
DrawPass(r) ==
  /\ artists' = r.as
  /\ regno' = r.rs
  /\ objs' = r.os

draw ==
  LET r == CanvasDraw(artists, regno, objs, frame_counter)
  IN  /\ Len(ax) + Len(r.drew) <= MaxSurf
      /\ DrawPass(r)
      /\ ax' = ax \o r.drew
      /\ last' = Did("draw", r.drew, r.ngone, <<>>)
      /\ UNCHANGED <<frame_counter, plan, files>>

\* show() advancing the frame as save() does.
show_Advancing ==
  LET r == CanvasDraw(artists, regno, objs, frame_counter)
  IN  /\ frame_counter <= PlanOf(plan).frames
      /\ Len(ax) + Len(r.drew) <= MaxSurf
      /\ DrawPass(r)
      /\ ax' = ax \o r.drew
      /\ last' = Did("show", r.drew, r.ngone, <<>>)
      /\ frame_counter' = frame_counter + 1
      /\ UNCHANGED <<plan, files>>

\* self.draw(); plt.show()
show ==
  LET r == CanvasDraw(artists, regno, objs, frame_counter)
  IN  /\ Len(ax) + Len(r.drew) <= MaxSurf
      /\ DrawPass(r)
      /\ ax' = ax \o r.drew
      /\ last' = Did("show", r.drew, r.ngone, <<>>)
      /\ UNCHANGED <<frame_counter, plan, files>>

resetAxes ==
  /\ ax' = <<>>
  /\ last' = NoPass
  /\ UNCHANGED <<frame_counter, artists, objs, plan, regno, files>>

\* save() clearing the axes before it writes the file.
save_ClearFirst ==
  LET r == CanvasDraw(artists, regno, objs, frame_counter)
  IN  /\ frame_counter <= PlanOf(plan).frames
      /\ Len(ax) + Len(r.drew) <= MaxSurf
      /\ DrawPass(r)
      /\ files' = Append(files, frame_counter)
      /\ last' = Did("save", r.drew, r.ngone, <<>>)
      /\ ax' = <<>>
      /\ frame_counter' = frame_counter + 1
      /\ UNCHANGED plan

\* self.draw(); savefig(..._{frame_counter}); self.resetAxes(); frame_counter += 1
save ==
  LET r == CanvasDraw(artists, regno, objs, frame_counter)
  IN  /\ frame_counter <= PlanOf(plan).frames
      /\ Len(ax) + Len(r.drew) <= MaxSurf
      /\ DrawPass(r)
      /\ files' = Append(files, frame_counter)
      /\ last' = Did("save", r.drew, r.ngone, ax \o r.drew)
      /\ ax' = <<>>
      /\ frame_counter' = frame_counter + 1
      /\ UNCHANGED plan

\* save() when fig.savefig raises (the folder does not exist, say): self.draw()
\* has run, the exception leaves save() before resetAxes() and the increment.
save_Fails ==
  LET r == CanvasDraw(artists, regno, objs, frame_counter)
  IN  /\ frame_counter <= PlanOf(plan).frames
      /\ Len(ax) + Len(r.drew) <= MaxSurf
      /\ DrawPass(r)
      /\ ax' = ax \o r.drew
      /\ last' = Did("save_fails", r.drew, r.ngone, <<>>)
      /\ UNCHANGED <<frame_counter, plan, files>>

\* What getAllArtists() and getActiveArtists() return.
AllArtists == artists

\* getActiveArtists() keeping every artist that is not done.
ActiveArtists_NotDone == SelectSeq(artists, LAMBDA o : ~isDone(objs[o], frame_counter))

ActiveArtists == SelectSeq(artists, LAMBDA o : isActive(objs[o], frame_counter))

\* The two getters assign nothing.
getAllArtists ==
  /\ AllArtists = artists
  /\ UNCHANGED vars

getActiveArtists ==
  /\ Len(ActiveArtists) <= Len(artists)
  /\ UNCHANGED vars

Next ==
  \/ construct
  \/ addArtistFactory
  \/ \E o \in 1..Len(objs) : addArtist(o)
  \/ \E o \in 1..Len(objs) : deactivate(o)
  \/ \E o \in 1..Len(objs) : toggle(o)
  \/ draw
  \/ show
  \/ resetAxes
  \/ save
  \/ getAllArtists
  \/ getActiveArtists

Spec == Init /\ [][Next]_vars

\* Runs in which two artists may have drawn the same id.
SpecIds == InitWith(Plans \cup ClashPlans) /\ [][Next]_vars

\* The runs of Spec and the longer runs of the two scenarios.
SpecAll == InitWith(Plans \cup ScenarioPlans) /\ [][Next]_vars

\* Runs over an Artist, a ToggledArtist and a OneTimeArtist of two layers.
SpecLayers == InitWith(LayerPlans) /\ [][Next]_vars

\* Runs over one ToggledArtist constructed active and one constructed inactive.
SpecToggle == InitWith(TogglePlans) /\ [][Next]_vars

\* Runs in which every artist is registered when it is constructed, at
\* frame 1 and before the first save, and the caller otherwise only calls
\* show() and save().
NextPreview ==
  \/ (frame_counter = 1 /\ files = <<>> /\ addArtistFactory)
  \/ show
  \/ save

SpecPreview == InitWith(Plans \cup ScenarioPlans) /\ [][NextPreview]_vars

\* Runs of registrations and save() calls, any of which may fail in savefig.
NextFail ==
  \/ addArtistFactory
  \/ save
  \/ save_Fails

SpecFail == Init /\ [][NextFail]_vars

\* A save() step as frame_counter shows it: the run still has frames to save
\* and the counter goes up by one. In the runs of NextLive only save()
\* changes frame_counter, and the axes are clear whenever save() is called.
saveAdvances ==
  /\ frame_counter <= PlanOf(plan).frames
  /\ frame_counter' = frame_counter + 1

\* Runs in which the caller keeps calling save(): while saves are still to
\* come, artists are registered, once each, and may be deactivated or
\* toggled; save() is taken whenever it stays possible.
NextLive ==
  \/ (frame_counter <= PlanOf(plan).frames /\ addArtistFactory)
  \/ (frame_counter <= PlanOf(plan).frames /\ \E o \in 1..Len(objs) : deactivate(o))
  \/ (frame_counter <= PlanOf(plan).frames /\ \E o \in 1..Len(objs) : toggle(o))
  \/ save

SpecLive == InitWith(LivePlans) /\ [][NextLive]_vars /\ WF_frame_counter(saveAdvances)

\* Runs in which every artist is registered once, when it is constructed.
NextOnce ==
  \/ addArtistFactory
  \/ \E o \in 1..Len(objs) : deactivate(o)
  \/ \E o \in 1..Len(objs) : toggle(o)
  \/ draw
  \/ show
  \/ resetAxes
  \/ save
  \/ getAllArtists
  \/ getActiveArtists

SpecOnce == Init /\ [][NextOnce]_vars

\* ------------------------------------------------------------ vocabulary
Objects == 1..Len(objs)

InList(o) == \E i \in 1..Len(artists) : artists[i] = o

Occurs(o, s) == \E i \in 1..Len(s) : s[i] = o

Count(o, s) == Cardinality({i \in 1..Len(s) : s[i] = o})

\* The frame indices the properties quantify over.
FrameIndices == 0..(LongRun + 2)

PassOps == {"draw", "show", "save"}

\* The last operation ran a pass, and the frame_counter that pass saw.
PassOp == last.op \in PassOps

PassFrame == IF last.op = "save" THEN frame_counter - 1 ELSE frame_counter

\* This step runs Canvas.draw (every pass sets last, nothing else sets it to
\* a pass record).
PassStep == last'.op \in PassOps

DistinctIds ==
  \A i, j \in 1..Len(artists) : i # j => objs[artists[i]].id # objs[artists[j]].id

Active(as, os, f) == SelectSeq(as, LAMBDA o : isActive(os[o], f))

NotDone(as, os, f) == SelectSeq(as, LAMBDA o : ~isDone(os[o], f))

\* ---------------------------------------------------------------- claims

\* C1: one pass of Canvas.draw at frame_counter f over a list of artists with
\* pairwise distinct ids draws exactly the artists that are active at f, each
\* once and in list order, and leaves exactly the artists that are not done
\* at f (judged after the artist's own draw), in their old order.
C1_PassStep ==
  (PassStep /\ DistinctIds) =>
     /\ last'.drew = Active(artists, objs, frame_counter)
     /\ artists' = NotDone(artists, objs', frame_counter)
     /\ last'.ngone = Len(artists) - Len(artists')
     /\ last'.op # "save" => ax' = ax \o last'.drew
     /\ last'.op = "save" => last'.image = ax \o last'.drew

C1_DrawPass == [][C1_PassStep]_vars

\* C1 witness: a pass over distinct artists drew two of them, removed some
\* and kept one.
C1_Witness ==
  /\ PassOp
  /\ Len(last.drew) = 2
  /\ last.drew[1] # last.drew[2]
  /\ last.ngone >= 1
  /\ Len(artists) >= 1
  /\ last.ngone + Len(artists) = 3
  /\ \E o \in Objects : objs[o].kind = "OneTimeArtist" /\ objs[o].drawn /\ ~InList(o)

\* C2: Canvas.artists is ordered by non-decreasing layer, and artists of
\* equal layer stand in the order of their registration.
C2_SortedStable ==
  \A i, j \in 1..Len(artists) :
    i < j => /\ objs[artists[i]].layer <= objs[artists[j]].layer
             /\ objs[artists[i]].layer = objs[artists[j]].layer => regno[i] < regno[j]

\* C2 witness: three artists, the one on the higher layer registered first,
\* two on an equal layer behind it in registration order, after a pass.
C2_Witness ==
  /\ Len(artists) = 3
  /\ regno = <<2, 3, 1>>
  /\ artists[1] # artists[2]
  /\ objs[artists[1]].layer = objs[artists[2]].layer
  /\ objs[artists[2]].layer < objs[artists[3]].layer
  /\ PassOp

\* C3: frame_counter starts at 1, every save() adds exactly 1 to it and no
\* other operation changes it; after k saves it is k + 1.
C3_FrameStep ==
  frame_counter' = frame_counter + (IF last'.op = "save" THEN 1 ELSE 0)

C3_FrameCounter ==
  /\ [](frame_counter = Len(files) + 1)
  /\ [][C3_FrameStep]_vars

\* C3 witness: two saves, then a show, and frame_counter is 3.
C3_Witness ==
  /\ Len(files) = 2
  /\ last.op = "show"
  /\ frame_counter = 3

\* C4: a deactivated artist of any variant is inactive and done at every
\* frame, and no operation clears the deactivated flag.
C4_Deactivated ==
  \A o \in Objects :
    objs[o].deactivated =>
      \A f \in FrameIndices : ~isActive(objs[o], f) /\ isDone(objs[o], f)

C4_Stays ==
  \A o \in Objects : objs[o].deactivated => objs'[o].deactivated

C4_DeactivatedForGood == []C4_Deactivated /\ [][C4_Stays]_vars

\* C4 witness: a deactivated ToggledArtist, toggled to 'active' and in the
\* list at a later frame.
C4_Witness ==
  \E o \in Objects :
    /\ objs[o].kind = "ToggledArtist"
    /\ objs[o].deactivated
    /\ objs[o].state = "active"
    /\ InList(o)
    /\ frame_counter > 1

IsTimed(o) == objs[o].kind = "TimedArtist"

IsOneTime(o) == objs[o].kind = "OneTimeArtist"

\* C5 as stated: a TimedArtist with window [start, end] is off the list as
\* soon as saves have brought frame_counter to end + 1 (frame 21 for the
\* window [10, 20]).
C5_GoneAtEndPlusOne ==
  \A o \in Objects :
    (IsTimed(o) /\ objs[o].start <= objs[o].end
       /\ last.op = "save" /\ frame_counter = objs[o].end + 1) => ~InList(o)

\* C5 amended: from frame end + 1 on a TimedArtist is not among the active
\* artists, and it is off the list after every pass that ran at a
\* frame_counter greater than end -- so after saves alone not before
\* frame_counter is end + 2.
C5_GoneAfterLatePass ==
  \A o \in Objects :
    IsTimed(o) =>
      /\ frame_counter > objs[o].end => ~Occurs(o, ActiveArtists)
      /\ (PassOp /\ PassFrame > objs[o].end) => ~InList(o)
      /\ (last.op = "save" /\ frame_counter > objs[o].end + 1) => ~InList(o)

\* C5 witness: A and B (window [10, 20]) registered, 20 saves made: at frame 21
\* only A is active and B is still on the list.
C5_Witness ==
  /\ plan = "window"
  /\ frame_counter = 21
  /\ Len(files) = 20
  /\ last.op = "save"
  /\ artists = <<1, 2>>
  /\ ActiveArtists = <<1>>

\* C6: a OneTimeArtist that is not deactivated and is on the list when a pass
\* runs at frame_counter = when is active before the pass, is drawn in the
\* pass, and is off the list when the pass ends.
C6_PassStep ==
  PassStep =>
    \A o \in Objects :
      (IsOneTime(o) /\ ~objs[o].deactivated /\ InList(o) /\ frame_counter = objs[o].when) =>
         /\ Occurs(o, ActiveArtists)
         /\ Occurs(o, last'.drew)
         /\ \A i \in 1..Len(artists') : artists'[i] # o

C6_DrawnAndRemoved == [][C6_PassStep]_vars

\* C6 witness: OneTimeArtist C (when = 5) was drawn by a pass at frame 5 and
\* the list is empty after it.
C6_Witness ==
  /\ plan = "onetime"
  /\ PassOp
  /\ PassFrame = 5
  /\ last.drew = <<1>>
  /\ artists = <<>>

\* C7: a OneTimeArtist that is registered once is drawn by the Canvas at most
\* once, only at frame_counter = when, and is done at every frame right after
\* that draw.
C7_Step ==
  \A o \in Objects :
    IsOneTime(o) =>
      /\ objs[o].drawn => objs'[o].drawn
      /\ objs'[o].drawn # objs[o].drawn => (PassStep /\ Occurs(o, last'.drew))
      /\ PassStep =>
           /\ Count(o, last'.drew) <= 1
           /\ Occurs(o, last'.drew) =>
                /\ frame_counter = objs[o].when
                /\ ~objs[o].drawn
                /\ \A f \in FrameIndices : isDone(objs'[o], f)

C7_DrawnOnce == [][C7_Step]_vars

\* C7 witness: show() drew a OneTimeArtist at frame_counter = when, and without
\* the frame advancing the artist is done.
C7_Witness ==
  \E o \in Objects :
    /\ IsOneTime(o)
    /\ last.op = "show"
    /\ last.drew = <<o>>
    /\ frame_counter = objs[o].when
    /\ isDone(objs[o], frame_counter)

\* C8 as stated: once a OneTimeArtist has drawn itself it is deactivated:
\* it is active at no frame, the frame `when` included.
C8_DeactivatedAfterDraw ==
  \A o \in Objects :
    (IsOneTime(o) /\ objs[o].drawn) =>
      /\ objs[o].deactivated
      /\ \A f \in FrameIndices : ~isActive(objs[o], f)

\* C9: a TimedArtist that was never deactivated is active exactly at the
\* frames of [start, end]; while it is on the list it is among the active
\* artists exactly when frame_counter is in the window; and no pass at a
\* frame up to end takes it off the list.  With A and B (window [10, 20])
\* registered, the active artists are [A] at frame 1 and [A, B] at frame 15.
C9_Window ==
  \A o \in Objects :
    (IsTimed(o) /\ ~objs[o].deactivated) =>
      /\ \A f \in FrameIndices :
           isActive(objs[o], f) <=> (objs[o].start <= f /\ f <= objs[o].end)
      /\ InList(o) =>
           (Occurs(o, ActiveArtists) <=>
              (objs[o].start <= frame_counter /\ frame_counter <= objs[o].end))

C9_Scenario ==
  (plan = "window" /\ artists = <<1, 2>>
     /\ ~objs[1].deactivated /\ ~objs[2].deactivated) =>
       /\ frame_counter = 1 => ActiveArtists = <<1>>
       /\ frame_counter = 15 => ActiveArtists = <<1, 2>>

C9_Kept ==
  PassStep =>
    \A o \in Objects :
      (IsTimed(o) /\ ~objs[o].deactivated /\ InList(o) /\ frame_counter <= objs[o].end) =>
        \E i \in 1..Len(artists') : artists'[i] = o

C9_ActiveInWindow == [](C9_Window /\ C9_Scenario) /\ [][C9_Kept]_vars

\* C9 witness: frame 15 reached by 14 saves, A and B both active.
C9_Witness ==
  /\ plan = "window"
  /\ frame_counter = 15
  /\ Len(files) = 14
  /\ last.op = "save"
  /\ last.drew = <<1, 2>>
  /\ ActiveArtists = <<1, 2>>

\* C10: save() draws, writes the file, clears the axes and increments, in
\* that order: the file gets the frame_counter of before the increment as its
\* suffix and the axes of before the clear as its image, so the k-th save
\* writes suffix k, whatever else is called in between.
C10_Suffixes == \A k \in 1..Len(files) : files[k] = k

C10_SaveStep ==
  IF last'.op = "save"
  THEN /\ files' = Append(files, frame_counter)
       /\ last'.image = ax \o last'.drew
       /\ ax' = <<>>
       /\ frame_counter' = frame_counter + 1
  ELSE files' = files

C10_SaveOrder == []C10_Suffixes /\ [][C10_SaveStep]_vars

\* C10 witness: the second save, after a show at the same frame: the file
\* holds the drawing of the show and the drawing of the save's own pass.
C10_Witness ==
  /\ last.op = "save"
  /\ files = <<1, 2>>
  /\ Len(last.drew) = 1
  /\ Len(last.image) = 2

\* ------------------------------------------------------------------- C11
\* The position in the sequence s of the only occurrence of o.
PosIn(o, s) == CHOOSE i \in 1..Len(s) : s[i] = o

\* Entry i of the list comes before entry j in (layer, registration) order.
Before(i, j) ==
  \/ objs[artists[i]].layer < objs[artists[j]].layer
  \/ /\ objs[artists[i]].layer = objs[artists[j]].layer
     /\ regno[i] < regno[j]

\* C11: in one pass of Canvas.draw, if two artists X and Y (each registered
\* once) are both drawn and X has the lower layer, or the same layer and the
\* earlier registration, then X's draw comes before Y's.
C11_PassStep ==
  PassStep =>
    \A i, j \in 1..Len(artists) :
      ( /\ Count(artists[i], artists) = 1
        /\ Count(artists[j], artists) = 1
        /\ Occurs(artists[i], last'.drew)
        /\ Occurs(artists[j], last'.drew)
        /\ Before(i, j) )
      => PosIn(artists[i], last'.drew) < PosIn(artists[j], last'.drew)

C11_LayerOrder == [][C11_PassStep]_vars

\* C11 witness: a pass drew two artists, the one of the lower layer first
\* although it was registered later.
C11_Witness ==
  /\ PassOp
  /\ Len(last.drew) = 2
  /\ InList(last.drew[1]) /\ InList(last.drew[2])
  /\ objs[last.drew[1]].layer < objs[last.drew[2]].layer
  /\ regno[PosIn(last.drew[1], artists)] > regno[PosIn(last.drew[2], artists)]
  /\ Count(last.drew[1], artists) = 1 /\ Count(last.drew[2], artists) = 1

\* A pass drew two artists of one layer, the one constructed later first
\* (it was registered first).
C11_TieReached ==
  /\ PassOp
  /\ Len(last.drew) = 2
  /\ objs[last.drew[1]].layer = objs[last.drew[2]].layer
  /\ last.drew[1] > last.drew[2]

\* ------------------------------------------------------------------- C12
IsToggled(o) == objs[o].kind = "ToggledArtist"

States == {"active", "inactive"}

OtherState(s) == CHOOSE t \in States : t # s

\* n toggle() calls in a row on the artist a.
RECURSIVE ToggleN(_, _)
ToggleN(a, n) == IF n = 0 THEN a ELSE ToggledArtist_toggle(ToggleN(a, n - 1))

\* C12: a ToggledArtist's state is one of the two values; n toggle() calls
\* leave the object as it is when n is even and change its state to the
\* other value, and nothing else, when n is odd; isActive(f) is
\* (state = active and not deactivated) at every frame f.
C12_Toggled ==
  \A o \in Objects : IsToggled(o) =>
    /\ objs[o].state \in States
    /\ \A n \in 0..MaxToggles :
         ToggleN(objs[o], n) =
           IF n % 2 = 0 THEN objs[o]
           ELSE [objs[o] EXCEPT !.state = OtherState(objs[o].state)]
    /\ \A f \in FrameIndices :
         isActive(objs[o], f) = (objs[o].state = "active" /\ ~objs[o].deactivated)

\* A step that changes the state of a ToggledArtist changes it to the other
\* value and changes nothing else (so the state after n toggle() calls is the
\* constructor's state for even n and the other one for odd n).
C12_Step ==
  \A o \in Objects :
    (IsToggled(o) /\ objs'[o].state # objs[o].state) =>
      /\ objs' = [objs EXCEPT ![o].state = OtherState(objs[o].state)]
      /\ UNCHANGED <<frame_counter, artists, ax, regno, files>>

C12_ToggleParity == []C12_Toggled /\ [][C12_Step]_vars

\* C12 witness: the ToggledArtist constructed inactive has been toggled on
\* and was drawn by the last pass; the one constructed active has been
\* toggled off and was not drawn, and is still on the list.
C12_Witness ==
  /\ PassOp
  /\ \E o \in Objects :
       /\ IsToggled(o) /\ PlanOf(plan).calls[o].kw.state = "inactive"
       /\ objs[o].state = "active" /\ Occurs(o, last.drew)
  /\ \E o \in Objects :
       /\ IsToggled(o) /\ PlanOf(plan).calls[o].kw.state = "active"
       /\ objs[o].state = "inactive" /\ ~objs[o].deactivated
       /\ InList(o) /\ ~Occurs(o, last.drew)

\* ------------------------------------------------------------------- C13
IsPlain(o) == objs[o].kind = "Artist"

\* C13: an Artist or ToggledArtist that has not been deactivated is never
\* taken off the list, whatever operation runs; every pass draws an Artist
\* once for each place it has on the list, and does not draw a ToggledArtist
\* that is switched off.
C13_Step ==
  \A o \in Objects :
    ((IsPlain(o) \/ IsToggled(o)) /\ ~objs[o].deactivated) =>
      /\ Count(o, artists') >= Count(o, artists)
      /\ (PassStep /\ IsPlain(o)) => Count(o, last'.drew) = Count(o, artists)
      /\ (PassStep /\ IsToggled(o) /\ objs[o].state = "inactive") =>
            ~Occurs(o, last'.drew)

C13_KeptUntilDeactivated == [][C13_Step]_vars

\* C13 witness: a save has just removed an artist from the list; the Artist
\* (not deactivated) was drawn and is still listed, and the ToggledArtist,
\* switched off and not deactivated, was not drawn and is still listed.
C13_Witness ==
  /\ last.op = "save"
  /\ last.ngone >= 1
  /\ \E o \in Objects :
       IsPlain(o) /\ ~objs[o].deactivated /\ InList(o) /\ Occurs(o, last.drew)
  /\ \E o \in Objects :
       /\ IsToggled(o) /\ ~objs[o].deactivated /\ objs[o].state = "inactive"
       /\ InList(o) /\ ~Occurs(o, last.drew)

\* ------------------------------------------------------------------- C14
\* A TimedArtist whose window ends before it starts.
Backwards(o) == IsTimed(o) /\ objs[o].end < objs[o].start

\* The next constructor call of the plan is such a TimedArtist.
BackwardsNext ==
  /\ Len(objs) < Len(PlanOf(plan).calls)
  /\ PlanOf(plan).calls[Len(objs) + 1].kind = "TimedArtist"
  /\ PlanOf(plan).calls[Len(objs) + 1].kw.end < PlanOf(plan).calls[Len(objs) + 1].kw.start

\* C14: a TimedArtist with end < start can be constructed and, on a Canvas
\* that holds at most one artist, registered (nothing refuses it), and it
\* keeps the start and end it was given; it is active at no frame, and no
\* pass draws it.
C14_Accepted ==
  /\ BackwardsNext => ENABLED construct
  /\ (BackwardsNext /\ Len(artists) <= 1) => ENABLED addArtistFactory
  /\ \A o \in Objects :
       (Backwards(o) /\ Len(artists) <= 1) => ENABLED addArtist(o)

C14_Inactive ==
  \A o \in Objects : Backwards(o) =>
    /\ objs[o].start = PlanOf(plan).calls[o].kw.start
    /\ objs[o].end = PlanOf(plan).calls[o].kw.end
    /\ \A f \in FrameIndices : ~isActive(objs[o], f)
    /\ ~Occurs(o, last.drew)
    /\ ~Occurs(o, ax)

C14_BackwardsWindow == C14_Accepted /\ C14_Inactive

\* C14 witness: TimedArtist(start 2, end 1) is on the list, and the save of
\* frame 1 (a frame between its end and its start) has not drawn it.
C14_Witness ==
  /\ last.op = "save"
  /\ files = <<1>>
  /\ \E o \in Objects :
       /\ Backwards(o) /\ ~objs[o].deactivated
       /\ objs[o].end <= PassFrame /\ PassFrame <= objs[o].start
       /\ InList(o) /\ ~Occurs(o, last.image)

\* ------------------------------------------------------------------- C15
\* The places of the list whose artist is active at the current frame.
ActivePlaces == {i \in 1..Len(artists) : isActive(objs[artists[i]], frame_counter)}

\* The k-th smallest member of the set of places P.
Kth(P, k) == CHOOSE i \in P : Cardinality({j \in P : j <= i}) = k

\* C15: getAllArtists() returns the whole list, active or not;
\* getActiveArtists() returns the artists at the active places of the list,
\* in list order; both calls can always be made and neither changes the
\* frame_counter, the list or any artist.
C15_Getters ==
  /\ Len(AllArtists) = Len(artists)
  /\ \A i \in 1..Len(artists) : AllArtists[i] = artists[i]
  /\ Len(ActiveArtists) = Cardinality(ActivePlaces)
  /\ \A k \in 1..Len(ActiveArtists) :
       ActiveArtists[k] = artists[Kth(ActivePlaces, k)]
  /\ ENABLED getAllArtists /\ ~ENABLED (getAllArtists /\ vars' # vars)
  /\ ENABLED getActiveArtists /\ ~ENABLED (getActiveArtists /\ vars' # vars)

\* C15 witness: at frame 2 the list holds three artists; the first and the
\* third are active and are what getActiveArtists() returns, the second is
\* not active and is returned by getAllArtists() only.
C15_Witness ==
  /\ frame_counter = 2
  /\ Len(AllArtists) = 3
  /\ ActiveArtists = <<artists[1], artists[3]>>
  /\ artists[1] # artists[3]
  /\ ~Occurs(AllArtists[2], ActiveArtists)

\* ------------------------------------------------------------------- C16
\* C16: in runs of registrations at frame 1 followed by show() and save()
\* calls only, the save made at frame_counter = w draws, in its own pass,
\* every OneTimeArtist with when = w > 1 (registered before frame w, never
\* deactivated), and the drawing is in the image it writes.
C16_SaveStep ==
  \A o \in Objects :
    ( /\ IsOneTime(o) /\ objs[o].when > 1
      /\ last'.op = "save" /\ frame_counter' = frame_counter + 1
      /\ frame_counter = objs[o].when )
    => (Occurs(o, last'.drew) /\ Occurs(o, last'.image))

C16_DrawnBySaveAtWhen == [][C16_SaveStep]_vars

\* ------------------------------------------------------------------- C17
\* C17: in runs of show() and save() calls, every save starts its pass on
\* clear axes, and the image it writes holds exactly one drawing of each
\* artist active at its frame, in list order, and nothing else.
C17_SaveStep ==
  (last'.op = "save" /\ frame_counter' = frame_counter + 1) =>
    /\ ax = <<>>
    /\ last'.image = Active(artists, objs, frame_counter)

C17_CleanSurface == [][C17_SaveStep]_vars

\* ------------------------------------------------------------------- C18
\* C18: a save() that fails in savefig leaves the Canvas as it was:
\* frame_counter, the list, every artist's flags and the files written are
\* unchanged, and the artists a retried save() draws are the same.
C18_FailStep ==
  last'.op = "save_fails" =>
    /\ frame_counter' = frame_counter
    /\ files' = files
    /\ artists' = artists
    /\ objs' = objs
    /\ Active(artists', objs', frame_counter') = Active(artists, objs, frame_counter)

C18_FailedSaveChangesNothing == [][C18_FailStep]_vars

\* ------------------------------------------------------------------- C19
\* Every listed artist of the kinds K is off the list at some later time.
EventuallyRemoved(K) ==
  \A o \in 1..MaxLen :
    ((o \in Objects) /\ (objs[o].kind \in K) /\ InList(o)) ~> ~InList(o)

\* In the runs of SpecLive save() is never held back by the bound on the
\* axes: it can run whenever the run still has frames to save.
LiveSaveFits ==
  /\ ax = <<>>
  /\ Len(CanvasDraw(artists, regno, objs, frame_counter).drew) <= MaxSurf

\* Under repeated save() calls every registered TimedArtist is removed.
TimedEventuallyRemoved == EventuallyRemoved({"TimedArtist"})

\* A listed OneTimeArtist whose frame has passed undrawn stays listed and
\* undrawn through every step that does not deactivate it, so no number of
\* further save() calls removes it.
MissedStep ==
  \A o \in Objects :
    ( /\ IsOneTime(o) /\ InList(o)
      /\ ~objs[o].drawn /\ ~objs[o].deactivated
      /\ objs[o].when < frame_counter
      /\ ~objs'[o].deactivated )
    => (InList(o)' /\ ~objs'[o].drawn /\ objs'[o].when < frame_counter')

MissedForGood == [][MissedStep]_vars

====
